---- MODULE Spec2Model ----
(***************************************************************************)
(* Block CSR matrix A2D::BSRMat<T, M, N> (include/sparse/sparse_matrix.h). *)
(* A matrix object is a record; arrays are functions over 0..len-1; the    *)
(* value buffer vals(p, a, b) is kept flat, row-major per block.           *)
(***************************************************************************)
EXTENDS Integers, Sequences, FiniteSets, TLC

\* ------------------------------------------------------------------ bounds
\* largest number of stored blocks (nnz) of a constructed pattern
MaxNnz == 2
\* how many calls a run makes: of add_values and of zero_rows, and of
\* add_values in a run that only assembles
Budget == [adds |-> 1, elims |-> 1, assemblies |-> 2, meta |-> 2]
\* the add_values calls that are tried: m * n <= pairs, and the scales of the
\* local matrix; Mixed is a run of all member functions, Assembly a run that
\* only assembles
Mixed == [pairs |-> 1, scales |-> {-1, 1}]
Assembly == [pairs |-> 2, scales |-> {1}]

\* block dimensions M, N and block counts nbrows, nbcols that are tried
BlockDims == {1, 2}
BlockCounts == {1, 2}
\* lengths m, n of the DOF lists of one add_values call
LocalLens == {1, 2}
\* lengths of the DOF list of one zero_rows call
ElimLens == {1, 2}
\* what a freshly allocated, never written scalar may hold
Junk == {3}

\* ------------------------------------------------------- index_t, arrays
\* index_t is an unsigned integer type; it is given 30 bits here, which keeps
\* its largest value inside the integers of the model
IndexBits == 30
\* the largest index_t, the "not found" sentinel of find_column_index
MAX_INDEX == 2 ^ IndexBits - 1

\* an array view that was never allocated (extent 0)
Unallocated == [k \in {} |-> 0]

\* flat offset of vals(p, a, b) in a buffer of shape (nnz, M, N)
Offset(A, p, a, b) == (p * A.M + a) * A.N + b

\* vals(p, a, b) names an element of block p
InBlock(A, p, a, b) == p < A.nnz /\ a < A.M /\ b < A.N

\* ------------------------------------------------------------ constructor
BSRMat_rowp_short(M_, N_, nbrows_, nbcols_, nnz_, rowp_, cols_, junk) ==
    [M |-> M_, N |-> N_, nbrows |-> nbrows_, nbcols |-> nbcols_, nnz |-> nnz_,
     rowp |-> [i \in 0..nbrows_ |-> IF i < nbrows_ THEN rowp_[i] ELSE 0],
     cols |-> [i \in 0..(nnz_ - 1) |-> cols_[i]],
     diag |-> Unallocated, perm |-> Unallocated, iperm |-> Unallocated,
     num_colors |-> junk, color_count |-> Unallocated,
     vals |-> [k \in 0..(nnz_ * M_ * N_ - 1) |-> junk]]

BSRMat(M_, N_, nbrows_, nbcols_, nnz_, rowp_, cols_, junk) ==
    [M |-> M_, N |-> N_, nbrows |-> nbrows_, nbcols |-> nbcols_, nnz |-> nnz_,
     rowp |-> [i \in 0..nbrows_ |-> rowp_[i]],
     cols |-> [i \in 0..(nnz_ - 1) |-> cols_[i]],
     diag |-> Unallocated, perm |-> Unallocated, iperm |-> Unallocated,
     num_colors |-> junk, color_count |-> Unallocated,
     vals |-> [k \in 0..(nnz_ * M_ * N_ - 1) |-> junk]]

\* ------------------------------------------------------------------ zero
zero_skip_first(A) ==
    [A EXCEPT !.vals = [k \in DOMAIN A.vals |-> IF k = 0 THEN A.vals[k] ELSE 0]]

zero(A) == [A EXCEPT !.vals = [k \in DOMAIN A.vals |-> 0]]

\* ----------------------------------------------------- find_column_index
RECURSIVE ScanRow(_, _, _, _)
ScanRow(A, jp, jp_end, col) ==
    IF jp < jp_end
    THEN IF A.cols[jp] = col THEN jp ELSE ScanRow(A, jp + 1, jp_end, col)
    ELSE MAX_INDEX

RECURSIVE ScanRowLast(_, _, _, _)
ScanRowLast(A, jp, jp_end, col) ==
    IF jp < jp_end
    THEN IF A.cols[jp_end - 1] = col THEN jp_end - 1
         ELSE ScanRowLast(A, jp, jp_end - 1, col)
    ELSE MAX_INDEX

find_column_index_last(A, row, col) ==
    ScanRowLast(A, A.rowp[row], A.rowp[row + 1], col)

find_column_index(A, row, col) ==
    ScanRow(A, A.rowp[row], A.rowp[row + 1], col)

\* ------------------------------------------------- element access to vals
\* An access vals(p, a, b) is not bounds-checked. One outside the block's
\* extents is undefined: ub = "alias" lets it land on the flat offset when
\* that lies inside the buffer, anything else loses it. S = [A, oob].
vals_store(S, p, a, b, x, ub) ==
    LET A == S.A
        k == Offset(A, p, a, b)
    IN  IF InBlock(A, p, a, b)
        THEN [S EXCEPT !.A.vals[k] = x]
        ELSE IF ub = "alias" /\ k \in DOMAIN A.vals
             THEN [A |-> [A EXCEPT !.vals[k] = x], oob |-> TRUE]
             ELSE [S EXCEPT !.oob = TRUE]

vals_load(A, p, a, b) ==
    LET k == Offset(A, p, a, b)
    IN  IF k \in DOMAIN A.vals THEN A.vals[k] ELSE 0

\* ------------------------------------------------------------ add_values
\* The two nested loops of add_values, run as one counter k = ii * n + jj.
RECURSIVE add_values_from(_, _, _, _, _, _, _, _)
add_values_from(S, m, i, n, j, mat, k, ub) ==
    IF k >= m * n THEN S
    ELSE LET ii == k \div n
             jj == k % n
             block_row == i[ii] \div S.A.M
             eq_row == i[ii] % S.A.M
             block_col == j[jj] \div S.A.N
             eq_col == j[jj] % S.A.N
             jp == find_column_index(S.A, block_row, block_col)
             S1 == IF jp # MAX_INDEX
                   THEN vals_store(S, jp, eq_row, eq_col,
                                   vals_load(S.A, jp, eq_row, eq_col) + mat[ii][jj], ub)
                   ELSE S
         IN  add_values_from(S1, m, i, n, j, mat, k + 1, ub)

RECURSIVE add_values_overwrite_from(_, _, _, _, _, _, _, _)
add_values_overwrite_from(S, m, i, n, j, mat, k, ub) ==
    IF k >= m * n THEN S
    ELSE LET ii == k \div n
             jj == k % n
             jp == find_column_index(S.A, i[ii] \div S.A.M, j[jj] \div S.A.N)
             S1 == IF jp # MAX_INDEX
                   THEN vals_store(S, jp, i[ii] % S.A.M, j[jj] % S.A.N, mat[ii][jj], ub)
                   ELSE S
         IN  add_values_overwrite_from(S1, m, i, n, j, mat, k + 1, ub)

add_values_overwrite(A, m, i, n, j, mat, ub) ==
    add_values_overwrite_from([A |-> A, oob |-> FALSE], m, i, n, j, mat, 0, ub)

RECURSIVE add_values_nodrop_from(_, _, _, _, _, _, _, _)
add_values_nodrop_from(S, m, i, n, j, mat, k, ub) ==
    IF k >= m * n THEN S
    ELSE LET ii == k \div n
             jj == k % n
             jp == find_column_index(S.A, i[ii] \div S.A.M, j[jj] \div S.A.N)
             q == IF jp # MAX_INDEX THEN jp ELSE 0
             S1 == vals_store(S, q, i[ii] % S.A.M, j[jj] % S.A.N,
                              vals_load(S.A, q, i[ii] % S.A.M, j[jj] % S.A.N)
                                  + mat[ii][jj], ub)
         IN  add_values_nodrop_from(S1, m, i, n, j, mat, k + 1, ub)

add_values_nodrop(A, m, i, n, j, mat, ub) ==
    add_values_nodrop_from([A |-> A, oob |-> FALSE], m, i, n, j, mat, 0, ub)

add_values(A, m, i, n, j, mat, ub) ==
    add_values_from([A |-> A, oob |-> FALSE], m, i, n, j, mat, 0, ub)

\* ------------------------------------------------------------- zero_rows
\* for (k = 0; k < N; k++) vals(jp, eq_row, k) = 0.0
RECURSIVE zero_block_row(_, _, _, _, _)
zero_block_row(S, jp, eq_row, k, ub) ==
    IF k >= S.A.N THEN S
    ELSE zero_block_row(vals_store(S, jp, eq_row, k, 0, ub), jp, eq_row, k + 1, ub)

\* for (jp = rowp[block_row]; jp < rowp[block_row + 1]; jp++) { ... }
RECURSIVE zero_rows_blocks(_, _, _, _, _)
zero_rows_blocks(S, jp, block_row, eq_row, ub) ==
    IF jp >= S.A.rowp[block_row + 1] THEN S
    ELSE LET S1 == zero_block_row(S, jp, eq_row, 0, ub)
             S2 == IF S1.A.cols[jp] = block_row
                   THEN vals_store(S1, jp, eq_row, eq_row, 1, ub)
                   ELSE S1
         IN  zero_rows_blocks(S2, jp + 1, block_row, eq_row, ub)

RECURSIVE zero_rows_from(_, _, _, _, _)
zero_rows_from(S, nbcs, dof, ii, ub) ==
    IF ii >= nbcs THEN S
    ELSE LET block_row == dof[ii] \div S.A.M
             eq_row == dof[ii] % S.A.M
         IN  zero_rows_from(zero_rows_blocks(S, S.A.rowp[block_row], block_row, eq_row, ub),
                            nbcs, dof, ii + 1, ub)

zero_rows(A, nbcs, dof, ub) ==
    zero_rows_from([A |-> A, oob |-> FALSE], nbcs, dof, 0, ub)

\* -------------------------------------------------------------- to_dense
\* the loops over ii and jj of one block, run as one counter k = ii * N + jj;
\* D = [buf, oob] is the buffer A of size m * n
RECURSIVE to_dense_block(_, _, _, _, _)
to_dense_block(D, A, i, jp, k) ==
    IF k >= A.M * A.N THEN D
    ELSE LET ii == k \div A.N
             jj == k % A.N
             j == A.cols[jp]
             irow == A.M * i + ii
             jcol == A.N * j + jj
             n == A.N * A.nbcols
             at == n * irow + jcol
             D1 == IF at \in DOMAIN D.buf
                   THEN [buf |-> [D.buf EXCEPT ![at] = vals_load(A, jp, ii, jj)],
                         oob |-> D.oob \/ ~InBlock(A, jp, ii, jj)]
                   ELSE [D EXCEPT !.oob = TRUE]
         IN  to_dense_block(D1, A, i, jp, k + 1)

RECURSIVE to_dense_row(_, _, _, _)
to_dense_row(D, A, i, jp) ==
    IF jp >= A.rowp[i + 1] THEN D
    ELSE to_dense_row(to_dense_block(D, A, i, jp, 0), A, i, jp + 1)

RECURSIVE to_dense_rows(_, _, _)
to_dense_rows(D, A, i) ==
    IF i >= A.nbrows THEN D
    ELSE to_dense_rows(to_dense_row(D, A, i, A.rowp[i]), A, i + 1)

to_dense(A) ==
    LET m == A.M * A.nbrows
        n == A.N * A.nbcols
        size == m * n
        D == to_dense_rows([buf |-> [k \in 0..(size - 1) |-> 0], oob |-> FALSE], A, 0)
    IN  [m |-> m, n |-> n, A |-> D.buf, oob |-> D.oob]

\* ------------------------------------------------------------- write_mtx
\* digits kept after the decimal point by "%30.20e"
MtxPrecision == 20

\* "%d": the decimal digits of a number >= 0, most significant first
RECURSIVE FormatD(_)
FormatD(x) == IF x < 10 THEN <<x>> ELSE Append(FormatD(x \div 10), x % 10)

FormatE_nosign(x) ==
    LET mag == IF x < 0 THEN 0 - x ELSE x
        ds == FormatD(mag)
    IN  [neg |-> FALSE,
         digits |-> [k \in 1..(MtxPrecision + 1) |-> IF k <= Len(ds) THEN ds[k] ELSE 0],
         exp |-> Len(ds) - 1]

\* "%30.20e" of a whole number: sign, one digit, MtxPrecision digits, exponent
FormatE(x) ==
    LET mag == IF x < 0 THEN 0 - x ELSE x
        ds == FormatD(mag)
    IN  [neg |-> x < 0,
         digits |-> [k \in 1..(MtxPrecision + 1) |-> IF k <= Len(ds) THEN ds[k] ELSE 0],
         exp |-> Len(ds) - 1]

RECURSIVE write_mtx_block(_, _, _, _, _)
write_mtx_block(F, A, i, jp, k) ==
    IF k >= A.M * A.N THEN F
    ELSE LET ii == k \div A.N
             jj == k % A.N
             j == A.cols[jp]
             irow == A.M * i + ii + 1
             jcol == A.N * j + jj + 1
             line == <<FormatD(irow), FormatD(jcol), FormatE(vals_load(A, jp, ii, jj))>>
         IN  write_mtx_block([lines |-> Append(F.lines, line),
                              oob |-> F.oob \/ ~InBlock(A, jp, ii, jj)], A, i, jp, k + 1)

RECURSIVE write_mtx_row(_, _, _, _)
write_mtx_row(F, A, i, jp) ==
    IF jp >= A.rowp[i + 1] THEN F
    ELSE write_mtx_row(write_mtx_block(F, A, i, jp, 0), A, i, jp + 1)

RECURSIVE write_mtx_rows(_, _, _)
write_mtx_rows(F, A, i) ==
    IF i >= A.nbrows THEN F
    ELSE write_mtx_rows(write_mtx_row(F, A, i, A.rowp[i]), A, i + 1)

write_mtx(A) ==
    LET F == write_mtx_rows([lines |-> <<>>, oob |-> FALSE], A, 0)
    IN  [header |-> "%%MatrixMarket matrix coordinate real general",
         size |-> <<FormatD(A.nbrows * A.M), FormatD(A.nbcols * A.N),
                    FormatD(A.nnz * A.M * A.N)>>,
         entries |-> F.lines,
         oob |-> F.oob]

\* ======================================================== the state machine
VARIABLES
    A,        \* the matrix object
    args,     \* what the constructor was given
    last,     \* the call made last, and what it returned
    clean,    \* zero() was called and only add_values calls followed it
    expect,   \* while clean: per stored block and offset, the sum of what was added
    oob,      \* the last call made an element access outside an array's extents
    adds,     \* add_values calls made
    elims,    \* zero_rows calls made
    heap,     \* two handles: the array buffers, in the order they were allocated
    obj,      \* two handles: the matrix objects "a" and, once copied, "b"
    meta      \* two handles: allocations of and stores to metadata arrays made

vars == <<A, args, last, clean, expect, oob, adds, elims, heap, obj, meta>>

\* what the calls on one object leave alone, and what the calls through
\* handles leave alone
handles == <<heap, obj, meta>>
single == <<A, args, last, clean, expect, oob>>

\* what an out-of-bounds element access may do
Outcomes == {"alias", "lost"}

\* the outcomes to tell apart: they differ only if an access was out of bounds
UBChoices(wasOob) == IF wasOob THEN Outcomes ELSE {"alias"}

\* the member functions that write nothing
ReadOnly == {"find_column_index", "to_dense", "write_mtx"}

\* row pointers of a pattern of nnz_ blocks in nbrows_ block rows
RowPointers(nbrows_, nnz_) ==
    {rp \in [0..nbrows_ -> 0..nnz_] :
        /\ rp[0] = 0
        /\ rp[nbrows_] = nnz_
        /\ \A r \in 0..(nbrows_ - 1) : rp[r] <= rp[r + 1]}

\* the blocks (r, c) the pattern stores
Present(X) ==
    {rc \in (0..(X.nbrows - 1)) \X (0..(X.nbcols - 1)) :
        \E p \in 0..(X.nnz - 1) :
            X.rowp[rc[1]] <= p /\ p < X.rowp[rc[1] + 1] /\ X.cols[p] = rc[2]}

\* (r, c, a, b): offset (a, b) of a stored block (r, c)
Slots(X) ==
    {x \in (0..(X.nbrows - 1)) \X (0..(X.nbcols - 1)) \X (0..(X.M - 1)) \X (0..(X.N - 1)) :
        <<x[1], x[2]>> \in Present(X)}

RECURSIVE SumFirst(_, _)
SumFirst(f, k) == IF k = 0 THEN 0 ELSE f[k - 1] + SumFirst(f, k - 1)

\* what one add_values call contributes to offset (a, b) of block (r, c)
Contribution(X, m, i, n, j, mat, x) ==
    SumFirst([k \in 0..(m * n - 1) |->
                 IF /\ i[k \div n] \div X.M = x[1] /\ i[k \div n] % X.M = x[3]
                    /\ j[k % n] \div X.N = x[2] /\ j[k % n] % X.N = x[4]
                 THEN mat[k \div n][k % n] ELSE 0], m * n)

\* the blocks the DOF lists of one add_values call address
Addressed(X, m, i, n, j) ==
    {<<i[ii] \div X.M, j[jj] \div X.N>> : ii \in 0..(m - 1), jj \in 0..(n - 1)}

\* a DOF pair occurs twice in the lists of one add_values call
Repeated(m, i, n, j) ==
    \E x \in 0..(m - 1), y \in 0..(m - 1), u \in 0..(n - 1), v \in 0..(n - 1) :
        <<x, u>> # <<y, v>> /\ i[x] = i[y] /\ j[u] = j[v]

\* the local matrices of shape m x n: entry (ii, jj) is s * (1 + ii * n + jj)
LocalMatrices(m, n, scales) ==
    {[ii \in 0..(m - 1) |-> [jj \in 0..(n - 1) |-> s * (1 + ii * n + jj)]] : s \in scales}

\* The arrays of an object are views: references to buffers, 0 if the view
\* was never allocated. The constructor allocates vals, rowp and cols.
Handle(X, vals_, rowp_, cols_) ==
    [M |-> X.M, N |-> X.N, nbrows |-> X.nbrows, nbcols |-> X.nbcols, nnz |-> X.nnz,
     rowp |-> rowp_, cols |-> cols_, diag |-> 0, perm |-> 0, iperm |-> 0,
     num_colors |-> X.num_colors, color_count |-> 0, vals |-> vals_]

Init ==
    \E M_ \in BlockDims, N_ \in BlockDims, nbrows_ \in BlockCounts, nbcols_ \in BlockCounts,
       nnz_ \in 0..MaxNnz, junk \in Junk :
        \E rowp_ \in RowPointers(nbrows_, nnz_),
           cols_ \in [0..(nnz_ - 1) -> 0..(nbcols_ - 1)] :
            /\ A = BSRMat(M_, N_, nbrows_, nbcols_, nnz_, rowp_, cols_, junk)
            /\ args = [nbrows |-> nbrows_, nbcols |-> nbcols_, nnz |-> nnz_,
                       rowp |-> rowp_, cols |-> cols_]
            /\ last = [op |-> "BSRMat"]
            /\ clean = FALSE
            /\ expect = [x \in Slots(A) |-> 0]
            /\ oob = FALSE
            /\ adds = 0
            /\ elims = 0
            /\ heap = <<A.vals, A.rowp, A.cols>>
            /\ obj = [h \in {"a"} |-> Handle(A, 1, 2, 3)]
            /\ meta = 0

\* Read-only calls are made after the writing calls of a run.
Writing == last.op \notin ReadOnly

Zero ==
    /\ Writing
    /\ A' = zero(A)
    /\ last' = [op |-> "zero"]
    /\ clean' = TRUE
    /\ expect' = [x \in Slots(A) |-> 0]
    /\ oob' = FALSE
    /\ UNCHANGED <<args, adds, elims, handles>>

FindColumnIndex ==
    \E row \in 0..(A.nbrows - 1), col \in 0..(A.nbcols - 1) :
        /\ last' = [op |-> "find_column_index", row |-> row, col |-> col,
                    ret |-> find_column_index(A, row, col)]
        /\ oob' = FALSE
        /\ UNCHANGED <<A, args, clean, expect, adds, elims, handles>>

AddValuesUpTo(budget, kind) ==
    /\ Writing
    /\ adds < budget
    /\ \E m \in LocalLens, n \in LocalLens :
        /\ m * n <= kind.pairs
        /\ \E i \in [0..(m - 1) -> 0..(A.M * A.nbrows - 1)],
              j \in [0..(n - 1) -> 0..(A.N * A.nbcols - 1)],
              mat \in LocalMatrices(m, n, kind.scales) :
          \E ub \in UBChoices(add_values(A, m, i, n, j, mat, "alias").oob) :
            LET S == add_values(A, m, i, n, j, mat, ub)
            IN  /\ A' = S.A
                /\ oob' = S.oob
                /\ last' = [op |-> "add_values",
                            blocks |-> Addressed(A, m, i, n, j),
                            repeated |-> Repeated(m, i, n, j)]
                /\ expect' = IF clean
                             THEN [x \in Slots(A) |->
                                      expect[x] + Contribution(A, m, i, n, j, mat, x)]
                             ELSE expect
    /\ adds' = adds + 1
    /\ UNCHANGED <<args, clean, elims, handles>>

AddValues == AddValuesUpTo(Budget.adds, Mixed)

ZeroRows ==
    /\ Writing
    /\ elims < Budget.elims
    /\ \E nbcs \in ElimLens :
        \E dof \in [0..(nbcs - 1) -> 0..(A.M * A.nbrows - 1)] :
          \E ub \in UBChoices(zero_rows(A, nbcs, dof, "alias").oob) :
            LET S == zero_rows(A, nbcs, dof, ub)
            IN  /\ A' = S.A
                /\ oob' = S.oob
                /\ last' = [op |-> "zero_rows", nbcs |-> nbcs, dof |-> dof]
    /\ elims' = elims + 1
    /\ clean' = FALSE
    /\ expect' = [x \in Slots(A) |-> 0]
    /\ UNCHANGED <<args, adds, handles>>

ToDense ==
    LET R == to_dense(A)
    IN  /\ last' = [op |-> "to_dense", m |-> R.m, n |-> R.n, A |-> R.A]
        /\ oob' = R.oob
        /\ UNCHANGED <<A, args, clean, expect, adds, elims, handles>>

WriteMtx ==
    LET R == write_mtx(A)
    IN  /\ last' = [op |-> "write_mtx", header |-> R.header, size |-> R.size,
                    entries |-> R.entries]
        /\ oob' = R.oob
        /\ UNCHANGED <<A, args, clean, expect, adds, elims, handles>>

Next ==
    \/ Zero
    \/ FindColumnIndex
    \/ AddValues
    \/ ZeroRows
    \/ ToDense
    \/ WriteMtx

Spec == Init /\ [][Next]_vars

\* Assembly alone: zero(), then add_values calls.
Assemble == clean /\ AddValuesUpTo(Budget.assemblies, Assembly)

NextAssembly ==
    \/ Zero
    \/ Assemble

SpecAssembly == Init /\ [][NextAssembly]_vars

\* ------------------------------------------------------------ two handles
ArrayFields == {"vals", "rowp", "cols", "diag", "perm", "iperm", "color_count"}
MetadataFields == {"diag", "perm", "iperm", "color_count"}

\* the array a view refers to
Deref(H, id) == IF id = 0 THEN Unallocated ELSE H[id]

\* the matrix seen through handle h
View(H, h) ==
    [M |-> h.M, N |-> h.N, nbrows |-> h.nbrows, nbcols |-> h.nbcols, nnz |-> h.nnz,
     rowp |-> Deref(H, h.rowp), cols |-> Deref(H, h.cols),
     diag |-> Deref(H, h.diag), perm |-> Deref(H, h.perm), iperm |-> Deref(H, h.iperm),
     num_colors |-> h.num_colors, color_count |-> Deref(H, h.color_count),
     vals |-> Deref(H, h.vals)]

\* the copy constructor: every member is copied, a view as a view
BSRMat_copy(H, src) == [heap |-> H, obj |-> src]

CopyConstruct ==
    /\ "b" \notin DOMAIN obj
    /\ LET R == BSRMat_copy(heap, obj["a"])
       IN  /\ heap' = R.heap
           /\ obj' = [h \in {"a", "b"} |-> IF h = "a" THEN obj["a"] ELSE R.obj]
    /\ UNCHANGED <<single, adds, elims, meta>>

ZeroVia ==
    \E h \in DOMAIN obj :
        /\ heap' = [heap EXCEPT ![obj[h].vals] = zero(View(heap, obj[h])).vals]
        /\ UNCHANGED <<single, adds, elims, obj, meta>>

AddValuesVia ==
    /\ adds < Budget.adds
    /\ \E h \in DOMAIN obj :
        LET X == View(heap, obj[h])
        IN  \E i \in [0..0 -> 0..(X.M * X.nbrows - 1)],
               j \in [0..0 -> 0..(X.N * X.nbcols - 1)],
               mat \in LocalMatrices(1, 1, Mixed.scales) :
                heap' = [heap EXCEPT ![obj[h].vals] =
                            add_values(X, 1, i, 1, j, mat, "alias").A.vals]
    /\ adds' = adds + 1
    /\ UNCHANGED <<single, elims, obj, meta>>

ZeroRowsVia ==
    /\ elims < Budget.elims
    /\ \E h \in DOMAIN obj :
        LET X == View(heap, obj[h])
        IN  \E dof \in [0..0 -> 0..(X.M * X.nbrows - 1)], ub \in Outcomes :
                heap' = [heap EXCEPT ![obj[h].vals] = zero_rows(X, 1, dof, ub).A.vals]
    /\ elims' = elims + 1
    /\ UNCHANGED <<single, adds, obj, meta>>

\* A metadata array is not allocated by the constructor: code that fills one
\* assigns a new array of nbrows entries to the member of the object it holds.
AllocateVia ==
    /\ meta < Budget.meta
    /\ \E h \in DOMAIN obj, f \in MetadataFields :
        /\ heap' = Append(heap, [k \in 0..(obj[h].nbrows - 1) |-> 0])
        /\ obj' = [obj EXCEPT ![h][f] = Len(heap) + 1]
    /\ meta' = meta + 1
    /\ UNCHANGED <<single, adds, elims>>

\* an element of an allocated metadata array is written
StoreVia ==
    /\ meta < Budget.meta
    /\ \E h \in DOMAIN obj, f \in MetadataFields :
        /\ obj[h][f] # 0
        /\ \E k \in DOMAIN heap[obj[h][f]] :
               heap' = [heap EXCEPT ![obj[h][f]][k] = 1]
    /\ meta' = meta + 1
    /\ UNCHANGED <<single, adds, elims, obj>>

NextHandles ==
    \/ CopyConstruct
    \/ ZeroVia
    \/ AddValuesVia
    \/ ZeroRowsVia
    \/ AllocateVia
    \/ StoreVia

\* the two-handle machine starts from the matrices of one block row and column
InitHandles == Init /\ A.nbrows = 1 /\ A.nbcols = 1

SpecHandles == InitHandles /\ [][NextHandles]_vars

\* ============================================================== the claims
\* the block, and the row inside the block, of flat offset k of vals
BlockOf(X, k) == k \div (X.M * X.N)
EqRowOf(X, k) == (k \div X.N) % X.M

\* block p is stored in block row r
InRow(X, p, r) == X.rowp[r] <= p /\ p < X.rowp[r + 1]

\* scalar (d, k) of the logical matrix, read back through the lookup
Entry(X, d, k) ==
    LET p == find_column_index(X, d \div X.M, k \div X.N)
    IN  IF p = MAX_INDEX THEN 0 ELSE vals_load(X, p, d % X.M, k % X.N)

\* scalar row d of the logical matrix
ScalarRow(X, d) == [k \in 0..(X.N * X.nbcols - 1) |-> Entry(X, d, k)]

SamePattern(X, Y) ==
    /\ X.nbrows = Y.nbrows /\ X.nbcols = Y.nbcols /\ X.nnz = Y.nnz
    /\ X.rowp = Y.rowp /\ X.cols = Y.cols

SameMetadata(X, Y) ==
    /\ X.diag = Y.diag /\ X.perm = Y.perm /\ X.iperm = Y.iperm
    /\ X.num_colors = Y.num_colors /\ X.color_count = Y.color_count

\* C1: after zero() and any add_values calls, every offset of every stored
\* block, read back through find_column_index, holds the sum of all that was
\* added to it.
C1_ScatterAddRoundTrip ==
    clean => \A x \in Slots(A) :
                 vals_load(A, find_column_index(A, x[1], x[2]), x[3], x[4]) = expect[x]

\* two calls were made, the last with a repeated DOF pair, and some scalar
\* holds more than any single entry
C1_Witness ==
    /\ clean /\ adds = 2 /\ last.op = "add_values" /\ last.repeated
    /\ \E x \in Slots(A) : expect[x] > 2

\* C2: an add_values call changes only scalars of stored blocks that its DOFs
\* address, so a call addressing only absent blocks changes nothing; rowp and
\* cols stay, and no access is out of bounds.
C2_DropSemantics ==
    [][adds' = adds + 1 =>
          /\ \A k \in DOMAIN A.vals :
                 A'.vals[k] # A.vals[k] =>
                     \E rc \in last'.blocks :
                         InRow(A, BlockOf(A, k), rc[1]) /\ A.cols[BlockOf(A, k)] = rc[2]
          /\ DOMAIN A'.vals = DOMAIN A.vals
          /\ last'.blocks \cap Present(A) = {} => A'.vals = A.vals
          /\ SamePattern(A', A)
          /\ ~oob']_vars

\* a call that addressed only absent blocks was made on values that are not all zero
C2_Witness ==
    /\ last.op = "add_values" /\ last.blocks \cap Present(A) = {}
    /\ \E k \in DOMAIN A.vals : A.vals[k] # 0

\* C3: after zero_rows({d}) every stored off-diagonal scalar of scalar row d is
\* zero, and scalar (d, d) is 1 exactly if block (d / M, d / M) is stored.
C3_BoundaryCondition ==
    (last.op = "zero_rows" /\ last.nbcs = 1) =>
        LET d == last.dof[0]
            r == d \div A.M
        IN  /\ \A p \in 0..(A.nnz - 1), b \in 0..(A.N - 1) :
                   (InRow(A, p, r) /\ A.cols[p] * A.N + b # d)
                       => vals_load(A, p, d % A.M, b) = 0
            /\ (Entry(A, d, d) = 1) <=> (<<r, r>> \in Present(A))

\* C4: zero_rows changes only scalars in row dof % M of the blocks of block row
\* dof / M, for the listed DOFs; pattern and metadata stay. On the diagonal
\* pattern of two 2 x 2 blocks, zero_rows({0}) makes scalar row 0 (1, 0, 0, 0)
\* and leaves scalar row 1.
C4_ZeroRowsFrame ==
    [][elims' = elims + 1 =>
          /\ \A k \in DOMAIN A.vals :
                 A'.vals[k] # A.vals[k] =>
                     \E ii \in 0..(last'.nbcs - 1) :
                         /\ InRow(A, BlockOf(A, k), last'.dof[ii] \div A.M)
                         /\ EqRowOf(A, k) = last'.dof[ii] % A.M
          /\ DOMAIN A'.vals = DOMAIN A.vals
          /\ SamePattern(A', A) /\ SameMetadata(A', A)
          /\ ( /\ A.M = 2 /\ A.N = 2 /\ A.nbrows = 2 /\ A.nbcols = 2 /\ A.nnz = 2
               /\ A.rowp[1] = 1 /\ A.cols[0] = 0 /\ A.cols[1] = 1
               /\ last'.nbcs = 1 /\ last'.dof[0] = 0 )
              => /\ ScalarRow(A', 0) = [k \in 0..3 |-> IF k = 0 THEN 1 ELSE 0]
                 /\ ScalarRow(A', 1) = ScalarRow(A, 1)]_vars

\* C10: no call reads or writes an element outside an array's extents.
C10_NoOutOfBounds == ~oob

\* "%d" and "%30.20e", read back
RECURSIVE ParseD(_)
ParseD(ds) == IF Len(ds) = 0 THEN 0 ELSE 10 * ParseD(SubSeq(ds, 1, Len(ds) - 1)) + ds[Len(ds)]

ParseE(f) ==
    LET whole == ParseD([k \in 1..(f.exp + 1) |-> f.digits[k]])
    IN  IF f.neg THEN 0 - whole ELSE whole

\* the matrix a MatrixMarket coordinate file describes: size from the size
\* line, each entry line sets its position, positions not listed are zero
ParseMtx(F) ==
    LET m == ParseD(F.size[1])
        n == ParseD(F.size[2])
        At(k) == n * (ParseD(F.entries[k][1]) - 1) + (ParseD(F.entries[k][2]) - 1)
        Hits(x) == {k \in 1..Len(F.entries) : At(k) = x}
        Newest(S) == CHOOSE k \in S : \A l \in S : l <= k
    IN  [m |-> m, n |-> n,
         A |-> [x \in 0..(m * n - 1) |->
                   IF Hits(x) = {} THEN 0 ELSE ParseE(F.entries[Newest(Hits(x))][3])]]

\* C5: the matrix parsed from what write_mtx writes is the matrix to_dense
\* returns for the same values, and the size line is (M * nbrows, N * nbcols,
\* nnz * M * N) with nnz * M * N entry lines.
C5_DenseMtxEquivalence ==
    /\ last.op = "to_dense" =>
           ParseMtx(write_mtx(A)) = [m |-> last.m, n |-> last.n, A |-> last.A]
    /\ last.op = "write_mtx" =>
           /\ ParseMtx(last) = [m |-> to_dense(A).m, n |-> to_dense(A).n, A |-> to_dense(A).A]
           /\ ParseD(last.size[1]) = A.M * A.nbrows
           /\ ParseD(last.size[2]) = A.N * A.nbcols
           /\ ParseD(last.size[3]) = A.nnz * A.M * A.N
           /\ Len(last.entries) = A.nnz * A.M * A.N

\* a file was written of a matrix that holds a negative and a positive scalar
\* and stores some block twice
C5_Witness ==
    /\ last.op = "write_mtx"
    /\ \E k \in DOMAIN A.vals : A.vals[k] < 0
    /\ \E k \in DOMAIN A.vals : A.vals[k] > 1
    /\ \E p \in 0..(A.nnz - 1), q \in 0..(A.nnz - 1), r \in 0..(A.nbrows - 1) :
           p < q /\ InRow(A, p, r) /\ InRow(A, q, r) /\ A.cols[p] = A.cols[q]

\* C6: nbrows, nbcols, nnz, rowp and cols are what the constructor was given,
\* in every state; rowp[0] = 0 and rowp[nbrows] = nnz.
C6_PatternFixed ==
    /\ SamePattern(A, args)
    /\ A.rowp[0] = 0
    /\ A.rowp[A.nbrows] = A.nnz

\* add_values, zero_rows and a read-only call were made on a two-block pattern
C6_Witness ==
    /\ adds = 1 /\ elims = 1 /\ last.op \in ReadOnly /\ A.nnz = 2

\* C8: find_column_index(r, c) returns the smallest p of block row r with
\* cols[p] = c, the sentinel MAX_INDEX exactly if there is none; the sentinel
\* is no storage index; the call changes nothing.
C8_Lookup ==
    [][last'.op = "find_column_index" =>
          LET r == last'.row
              c == last'.col
              Match == {p \in 0..(A.nnz - 1) : InRow(A, p, r) /\ A.cols[p] = c}
          IN  /\ Match # {} =>
                     last'.ret \in Match /\ \A p \in Match : last'.ret <= p
              /\ (last'.ret = MAX_INDEX) <=> (Match = {})
              /\ MAX_INDEX \notin 0..(A.nnz - 1)
              /\ A' = A]_vars

\* a block stored twice in its row was looked up
C8_Witness ==
    /\ last.op = "find_column_index"
    /\ last.ret # MAX_INDEX
    /\ \E p \in 0..(A.nnz - 1) :
           p > last.ret /\ InRow(A, p, last.row) /\ A.cols[p] = last.col

\* C9: zero() makes every scalar of vals 0, leaves pattern and metadata, and a
\* second zero() changes nothing more.
C9_ZeroResets ==
    [][last'.op = "zero" =>
          /\ \A k \in DOMAIN A'.vals : A'.vals[k] = 0
          /\ DOMAIN A'.vals = 0..(A.nnz * A.M * A.N - 1)
          /\ SamePattern(A', A) /\ SameMetadata(A', A)
          /\ zero(A') = A']_vars

\* zero() was called after add_values on a matrix that stores blocks
C9_Witness ==
    /\ last.op = "zero" /\ adds = 1 /\ A.nnz > 0

\* C7: once "b" is a copy of "a", after any writes through either handle both
\* handles see the same contents of the value buffer, the pattern arrays and
\* the metadata arrays.
C7_ShallowCopySharing ==
    "b" \in DOMAIN obj =>
        \A f \in ArrayFields : Deref(heap, obj["a"][f]) = Deref(heap, obj["b"][f])

====
